---- MODULE Spec2Model ----
(***************************************************************************)
(* Model of wfcommons.wfbench.bench: the planner (create_benchmark and its *)
(* helpers output_files, add_output_to_json, add_input_to_json,            *)
(* calculate_input_files, generate_data_for_root_nodes) and the local      *)
(* scheduler (WorkflowBenchmark.run, cleanup_sys_files).                   *)
(*                                                                         *)
(* A file name is the tuple of the pieces its f-string joins, a Python     *)
(* dict is the sequence of its <<key, value>> items in insertion order,    *)
(* and a size is a record [t, v]: t tells a Python int from a decimal      *)
(* string (the data mapping is annotated Dict[str, str]), v is its value.  *)
(***************************************************************************)
EXTENDS Integers, Sequences, FiniteSets, TLC

\* ------------------------------------------------------------------ bounds
MaxTasks == 3        \* tasks of an enumerated task graph
MaxEdges == 3        \* edges of an enumerated task graph
MaxData == 2         \* largest total footprint, in MB
MaxCalls == 2        \* calls of create_benchmark on one generator

\* --------------------------------------------------------------- constants
MBtoB == 1000000
PercentCpuDefault == "0.6"
CpuWorkDefault == 1000
PerfCpuWorkDefault == 100

\* the pool the enumerated graphs take their task names from, in list order
NamePool == <<"a_01", "b_02", "a_03", "b_04", "a_05", "b_06">>
CategoryPool == <<"a", "b", "a", "b", "a", "b">>
Categories == {"a", "b"}
CategorySizes == {0, 100}
SaveDirs == {"this_dir", "save_dir"}
Dirs == {"this_dir", "save_dir", "caller_cwd", "execution_folder"}

\* the lock_files_folder argument: None, a folder mkdir and open succeed in,
\* a path mkdir raises on, a folder whose files open("w+") raises on
LockFolders == {"none", "writable", "no_mkdir", "no_open"}

\* ------------------------------------------------------------------ helpers
Range(s) == {s[i] : i \in DOMAIN s}

Min(S) == CHOOSE x \in S : \A y \in S : x <= y

RECURSIVE SortedSeq(_)
SortedSeq(S) == IF S = {} THEN <<>>
                ELSE <<Min(S)>> \o SortedSeq(S \ {Min(S)})

RECURSIVE Flatten(_)
Flatten(ss) == IF ss = <<>> THEN <<>> ELSE Head(ss) \o Flatten(Tail(ss))

\* the list a comprehension over 1..n builds, as a sequence
List(f) == <<>> \o f

SelectIdx(s, P(_)) == SortedSeq({i \in DOMAIN s : P(s[i])})

Abs(x) == IF x < 0 THEN -x ELSE x

\* dict helpers: a dict is a sequence of <<key, value>> with distinct keys
DictHas(d, k) == \E i \in DOMAIN d : d[i][1] = k
DictGet(d, k) == d[CHOOSE i \in DOMAIN d : d[i][1] = k][2]

\* ------------------------------------------------------- sizes and names
IntSize(n) == [t |-> "int", v |-> n]

\* int(x): a decimal string becomes the int it spells, an int stays itself
IntOf(x) == [t |-> "int", v |-> x.v]

\* f"{task}_input.txt", f"{task}_output.txt", f"{task}_{child}_output.txt"
RootInputName(task) == <<task, "_input.txt">>
SingleOutputName(task) == <<task, "_output.txt">>
EdgeOutputName(task, child) == <<task, "_", child, "_output.txt">>

\* glob "*input*.txt" and "*output.txt" on the names the planner forms
MatchesInputGlob(name) == name[Len(name)] = "_input.txt"
MatchesOutputGlob(name) == name[Len(name)] = "_output.txt"

\* mutant of Round: the division truncates, as int(a / b) or a // b would
Round_Floor(a, b) == a \div b

\* round(a / b) as Python 3 rounds a true division: to nearest, ties to even
Round(a, b) ==
    LET q == a \div b
        r == a % b
    IN  IF 2 * r < b THEN q
        ELSE IF 2 * r > b THEN q + 1
        ELSE IF q % 2 = 0 THEN q ELSE q + 1

\* ---------------------------------------------------------- task graphs
EdgesOn(n) == {e \in (1..n) \X (1..n) : e[1] # e[2]}

Orders(n) == {f \in [1..n -> 1..n] : \A i, j \in 1..n : i # j => f[i] # f[j]}

Acyclic(n, E) == \E ord \in Orders(n) : \A e \in E : ord[e[1]] < ord[e[2]]

\* the document the generator writes for tasks names[1..n] and edges E
RawTask(names, cats, n, E, i) ==
    [name      |-> names[i],
     category  |-> cats[i],
     parents   |-> List([k \in 1..Cardinality({e \in E : e[2] = i}) |->
                      names[SortedSeq({e[1] : e \in {x \in E : x[2] = i}})[k]]]),
     children  |-> List([k \in 1..Cardinality({e \in E : e[1] = i}) |->
                      names[SortedSeq({e[2] : e \in {x \in E : x[1] = i}})[k]]]),
     files     |-> <<>>,
     program   |-> "",
     arguments |-> <<>>,
     runtime   |-> TRUE]

RawGraph(names, cats, n, E) == List([i \in 1..n |-> RawTask(names, cats, n, E, i)])

BoundedGraphs ==
    UNION {{RawGraph(NamePool, CategoryPool, n, E) :
              E \in {F \in SUBSET EdgesOn(n) :
                        Cardinality(F) <= MaxEdges /\ Acyclic(n, F)}} :
           n \in 0..MaxTasks}

\* the diamond A->B, A->C, B->D, C->D, each task its own category
DiamondNames == <<"A", "B", "C", "D">>
DiamondGraph == RawGraph(DiamondNames, DiamondNames, 4,
                         {<<1, 2>>, <<1, 3>>, <<2, 4>>, <<3, 4>>})
DiamondData == [kind |-> "dict",
                keys |-> Range(DiamondNames),
                map |-> [c \in Range(DiamondNames) |->
                           IntSize(IF c \in {"B", "C"} THEN 100 ELSE 0)]]

\* the data argument: a per-category mapping, an int of MB (none or the most),
\* or None; the
\* mapping gives category a a Python int and category b a decimal string;
\* `keys` are the categories the mapping has a key for
KindOf(c) == IF c = "a" THEN "int" ELSE "str"

DataMapping(keys, m) ==
    [kind |-> "dict", keys |-> keys,
     map |-> [c \in Categories |-> [t |-> KindOf(c), v |-> m[c]]]]

BoundedData ==
    {DataMapping(Categories, m) : m \in [Categories -> CategorySizes]}
    \cup {[kind |-> "int", v |-> d] : d \in {0, MaxData}}
    \cup {[kind |-> "none"]}

\* task["name"].split("_0")[0] on the names of the pool and of the diamond
task_type(name) ==
    IF name \in {"a_01", "a_03", "a_05"} THEN "a"
    ELSE IF name \in {"b_02", "b_04", "b_06"} THEN "b"
    ELSE name

\* the percent_cpu and cpu_work arguments: one value, or a mapping by task
\* type; `keys` are the keys a mapping has, `map` its values
Scalar(x) == [kind |-> "scalar", v |-> x]
Mapping(keys, x) == [kind |-> "dict", keys |-> keys, map |-> [c \in Categories |-> x]]

ParameterOf(param, type) == IF param.kind = "dict" THEN param.map[type] ELSE param.v

\* param[task_type] raises KeyError
ParameterKeyError(param, type) == param.kind = "dict" /\ type \notin param.keys

TaskNamed(wf, name) == wf[CHOOSE i \in DOMAIN wf : wf[i].name = name]
TaskNames(wf) == {wf[i].name : i \in DOMAIN wf}

\* ------------------------------------------------------------ the planner
Arg(flag, val) == [flag |-> flag, val |-> val]
Positional(name) == Arg("", name)
File(link, name, size) == [link |-> link, name |-> name, size |-> size]

\* if lock_files_folder: params.extend([--path-lock, --path-cores])
LockParameters(lock_files_folder) ==
    IF lock_files_folder # "none"
    THEN <<Arg("--path-lock", "cores.txt.lock"), Arg("--path-cores", "cores.txt")>>
    ELSE <<>>

\* create_benchmark, the loop that sets the arguments section of each task
SetParameters(wf, percent_cpu, cpu_work, lock_files_folder) ==
    List([i \in DOMAIN wf |->
        [wf[i] EXCEPT !.files = <<>>,
                      !.program = "wfbench.py",
                      !.arguments =
                          <<Positional(<<wf[i].name>>),
                            Arg("--percent-cpu",
                                ParameterOf(percent_cpu, task_type(wf[i].name))),
                            Arg("--cpu-work",
                                ParameterOf(cpu_work, task_type(wf[i].name)))>>
                          \o LockParameters(lock_files_folder),
                      !.runtime = FALSE]])

\* mutant of output_files: an edge is sized by the producer's category
output_files_ProducerSize(wf, data) ==
    List([i \in DOMAIN wf |->
        <<wf[i].name,
          IF wf[i].children = <<>>
          THEN << <<wf[i].name, IntOf(data[wf[i].category])>> >>
          ELSE List([k \in DOMAIN wf[i].children |->
                  <<wf[i].children[k], IntOf(data[wf[i].category])>>])>>])

\* output_files(wf, data): per task, the dict child -> size
output_files(wf, data) ==
    List([i \in DOMAIN wf |->
        <<wf[i].name,
          IF wf[i].children = <<>>
          THEN << <<wf[i].name, IntOf(data[wf[i].category])>> >>
          ELSE List([k \in DOMAIN wf[i].children |->
                  <<wf[i].children[k],
                    IntOf(data[TaskNamed(wf, wf[i].children[k]).category])>>])>>])

\* mutant of calculate_input_files: the factor 2 is on the wrong counter
calculate_input_files_Swapped(wf) ==
    LET tasks_need_input == Cardinality({i \in DOMAIN wf : wf[i].parents = <<>>})
        tasks_dont_need_input == Cardinality({i \in DOMAIN wf : wf[i].parents # <<>>})
    IN  <<tasks_need_input, tasks_need_input + tasks_dont_need_input * 2>>

\* calculate_input_files(wf): <<tasks_need_input, total_num_files>>
calculate_input_files(wf) ==
    LET tasks_need_input == Cardinality({i \in DOMAIN wf : wf[i].parents = <<>>})
        tasks_dont_need_input == Cardinality({i \in DOMAIN wf : wf[i].parents # <<>>})
    IN  <<tasks_need_input, tasks_need_input * 2 + tasks_dont_need_input>>

\* mutant of ExtendOutDict: the file of an edge is named child first
ExtendOutDict_ChildFirst(wf, outputs) ==
    List([i \in DOMAIN wf |->
        [wf[i] EXCEPT !.arguments = Append(@,
            Arg("--out",
                List([k \in DOMAIN DictGet(outputs, wf[i].name) |->
                    <<EdgeOutputName(DictGet(outputs, wf[i].name)[k][1], wf[i].name),
                      DictGet(outputs, wf[i].name)[k][2]>>])))]])

\* create_benchmark, per-category branch: the --out argument of every task
ExtendOutDict(wf, outputs) ==
    List([i \in DOMAIN wf |->
        [wf[i] EXCEPT !.arguments = Append(@,
            Arg("--out",
                List([k \in DOMAIN DictGet(outputs, wf[i].name) |->
                    <<EdgeOutputName(wf[i].name, DictGet(outputs, wf[i].name)[k][1]),
                      DictGet(outputs, wf[i].name)[k][2]>>])))]])

\* create_benchmark, total-footprint branch: the --out argument of every task
ExtendOutInt(wf, file_size) ==
    List([i \in DOMAIN wf |->
        [wf[i] EXCEPT !.arguments = Append(@,
            Arg("--out", << <<SingleOutputName(wf[i].name), IntSize(file_size)>> >>))]])

\* create_benchmark, total-footprint branch: `outputs` is reset for every
\* task, so after the loop it holds the children of the last task only
LastOutputs(wf, file_size) ==
    IF wf = <<>> \/ wf[Len(wf)].children = <<>> THEN <<>>
    ELSE << <<wf[Len(wf)].name,
              List([k \in DOMAIN wf[Len(wf)].children |->
                  <<wf[Len(wf)].children[k], IntSize(file_size)>>])>> >>

\* mutant of add_output_to_json: the per-edge OUTPUT is named after the
\* child alone
add_output_to_json_ChildName(wf, output) ==
    List([i \in DOMAIN wf |->
        [wf[i] EXCEPT !.files = @ \o
            IF output.kind = "dict"
            THEN [k \in DOMAIN DictGet(output.table, wf[i].name) |->
                    File("output",
                         SingleOutputName(DictGet(output.table, wf[i].name)[k][1]),
                         DictGet(output.table, wf[i].name)[k][2])]
            ELSE <<File("output", SingleOutputName(wf[i].name), IntSize(output.v))>>]])

\* add_output_to_json(wf, output_files); output_files is a dict or an int
add_output_to_json(wf, output) ==
    List([i \in DOMAIN wf |->
        [wf[i] EXCEPT !.files = @ \o
            IF output.kind = "dict"
            THEN [k \in DOMAIN DictGet(output.table, wf[i].name) |->
                    File("output",
                         EdgeOutputName(wf[i].name,
                                        DictGet(output.table, wf[i].name)[k][1]),
                         DictGet(output.table, wf[i].name)[k][2])]
            ELSE <<File("output", SingleOutputName(wf[i].name), IntSize(output.v))>>]])

\* add_input_to_json, first loop: input_files[child][parent] = file_size,
\* the parents in the order output_files lists them
input_files(outputs, child) ==
    LET withChild == SelectIdx(outputs, LAMBDA item : DictHas(item[2], child))
    IN  List([k \in DOMAIN withChild |->
            <<outputs[withChild[k]][1], DictGet(outputs[withChild[k]][2], child)>>])

\* mutant of InputDeclarations: a per-category INPUT takes the size the
\* mapping gives the task's own category, as the mapping spells it
InputDeclarations_OwnSize(task, outputs, data) ==
    IF task.parents = <<>>
    THEN <<File("input", RootInputName(task.name),
                IF data.kind = "dict" THEN data.map[task.category]
                ELSE IntSize(data.v))>>
    ELSE IF data.kind = "dict"
    THEN List([k \in DOMAIN input_files(outputs, task.name) |->
            File("input",
                 EdgeOutputName(input_files(outputs, task.name)[k][1], task.name),
                 data.map[task.category])])
    ELSE List([k \in DOMAIN task.parents |->
            File("input", SingleOutputName(task.parents[k]), IntSize(data.v))])

\* mutant of InputDeclarations: under the total-footprint policy only the
\* first parent's file is declared
InputDeclarations_FirstParent(task, outputs, data) ==
    IF task.parents = <<>>
    THEN <<File("input", RootInputName(task.name),
                IF data.kind = "dict" THEN data.map[task.category]
                ELSE IntSize(data.v))>>
    ELSE IF data.kind = "dict"
    THEN List([k \in DOMAIN input_files(outputs, task.name) |->
            File("input",
                 EdgeOutputName(input_files(outputs, task.name)[k][1], task.name),
                 input_files(outputs, task.name)[k][2])])
    ELSE <<File("input", SingleOutputName(task.parents[1]), IntSize(data.v))>>

\* mutant of InputDeclarations: the else is lost, a task without parents
\* also gets the INPUTs of the per-category branch
InputDeclarations_NoElse(task, outputs, data) ==
    (IF task.parents = <<>>
     THEN <<File("input", RootInputName(task.name),
                 IF data.kind = "dict" THEN data.map[task.category]
                 ELSE IntSize(data.v))>>
     ELSE <<>>)
    \o
    (IF data.kind = "dict"
     THEN List([k \in DOMAIN input_files(outputs, task.name) |->
             File("input",
                  EdgeOutputName(input_files(outputs, task.name)[k][1], task.name),
                  input_files(outputs, task.name)[k][2])])
     ELSE List([k \in DOMAIN task.parents |->
             File("input", SingleOutputName(task.parents[k]), IntSize(data.v))]))

\* add_input_to_json, the INPUT declarations of one task
InputDeclarations(task, outputs, data) ==
    IF task.parents = <<>>
    THEN <<File("input", RootInputName(task.name),
                IF data.kind = "dict" THEN data.map[task.category]
                ELSE IntSize(data.v))>>
    ELSE IF data.kind = "dict"
    THEN List([k \in DOMAIN input_files(outputs, task.name) |->
            File("input",
                 EdgeOutputName(input_files(outputs, task.name)[k][1], task.name),
                 input_files(outputs, task.name)[k][2])])
    ELSE List([k \in DOMAIN task.parents |->
            File("input", SingleOutputName(task.parents[k]), IntSize(data.v))])

\* add_input_to_json(wf, output_files, data)
add_input_to_json(wf, outputs, data) ==
    List([i \in DOMAIN wf |->
        LET decls == InputDeclarations(wf[i], outputs, data)
        IN  [wf[i] EXCEPT !.files = @ \o decls,
                          !.arguments = @ \o [k \in DOMAIN decls |->
                                                 Positional(decls[k].name)]]])

\* mutant of RootDataFiles: a file is written for every task
RootDataFiles_EveryTask(wf, data) ==
    {[name |-> RootInputName(wf[i].name),
      len  |-> IF data.kind = "dict" THEN IntOf(data.map[wf[i].category]).v
               ELSE data.v] : i \in DOMAIN wf}

\* generate_data_for_root_nodes: the files written under save_dir
RootDataFiles(wf, data) ==
    {[name |-> RootInputName(wf[i].name),
      len  |-> IF data.kind = "dict" THEN IntOf(data.map[wf[i].category]).v
               ELSE data.v] : i \in {j \in DOMAIN wf : wf[j].parents = <<>>}}

\* open(file, "wb") and write: the file replaces one of the same name
WriteFiles(dir, files) ==
    {f \in dir : \A g \in files : g.name # f.name} \cup files

FileSize(wf, data) == Round(data.v * MBtoB, calculate_input_files(wf)[2])

\* the plan create_benchmark saves, for data a dict, an int or None
FinalizedPlan(wf, data, params) ==
    IF data.kind = "dict"
    THEN LET outputs == output_files(wf, data.map)
         IN  add_input_to_json(
                 add_output_to_json(ExtendOutDict(params, outputs),
                                    [kind |-> "dict", table |-> outputs]),
                 outputs, data)
    ELSE IF data.kind = "int"
    THEN LET file_size == FileSize(wf, data)
         IN  add_input_to_json(
                 add_output_to_json(ExtendOutInt(params, file_size),
                                    [kind |-> "int", v |-> file_size]),
                 LastOutputs(wf, file_size), [kind |-> "int", v |-> file_size])
    ELSE params

\* ------------------------------------------ the wfperf planner (perf.py)
\* f"sys_input_{i}.txt"
SysInputName(i) == <<"sys_input_", ToString(i), ".txt">>

\* input_files(wf) of perf.py: <<tasks_need_input, total_num_files>>
perf_input_files(wf) ==
    LET tasks_need_input == Cardinality({i \in DOMAIN wf : wf[i].parents = <<>>})
        tasks_dont_need_input == Cardinality({i \in DOMAIN wf : wf[i].parents # <<>>})
    IN  <<tasks_need_input, tasks_need_input * 2 + tasks_dont_need_input>>

\* create_benchmark of perf.py, the loop that sets the command of each job
SetPerfParameters(wf, percent_cpu, cpu_work) ==
    List([i \in DOMAIN wf |->
        [wf[i] EXCEPT !.files = <<>>,
                      !.program = "wfperf_benchmark.py",
                      !.arguments = <<Positional(<<wf[i].name>>),
                                      Arg("--path-lock=", "cores.txt.lock"),
                                      Arg("--path-cores=", "cores.txt"),
                                      Arg("--percent-cpu=", percent_cpu),
                                      Arg("--cpu-work=", cpu_work)>>,
                      !.runtime = FALSE]])

\* arguments.extend(["--data", f"--file-size={file_size}"])
ExtendData(wf, file_size) ==
    List([i \in DOMAIN wf |->
        [wf[i] EXCEPT !.arguments = @ \o <<Positional(<<"--data">>),
                                           Arg("--file-size=", file_size)>>]])

\* the OUTPUT declarations a job has at this point of the loop, as INPUTs
OutputsAsInputs(files) ==
    LET ix == SelectIdx(files, LAMBDA f : f.link = "output")
    IN  List([x \in DOMAIN ix |-> File("input", files[ix[x]].name, files[ix[x]].size)])

\* add_io_to_json, the loop from job k on, i system inputs named so far: the
\* job gets its OUTPUT, then sys_input_<i>.txt if it has no parents, else the
\* OUTPUTs its parents have been given so far
RECURSIVE add_io_to_json_from(_, _, _, _)
add_io_to_json_from(jobs, k, i, file_size) ==
    IF k > Len(jobs) THEN jobs
    ELSE LET job == jobs[k]
             output == File("output", SingleOutputName(job.name), IntSize(file_size))
             inputs ==
                 IF job.parents = <<>>
                 THEN <<File("input", SysInputName(i), IntSize(file_size))>>
                 ELSE Flatten(List([p \in DOMAIN job.parents |->
                          OutputsAsInputs(TaskNamed(jobs, job.parents[p]).files)]))
         IN  add_io_to_json_from(
                 [jobs EXCEPT ![k].files = Append(@, output) \o inputs],
                 k + 1, IF job.parents = <<>> THEN i + 1 ELSE i, file_size)

\* add_io_to_json(wf, file_size) of perf.py
add_io_to_json(wf, file_size) == add_io_to_json_from(wf, 1, 0, file_size)

\* generate_sys_data(num_files, file_total_size, save_dir)
generate_sys_data(num_files, file_total_size) ==
    {[name |-> SysInputName(i), len |-> num_files * file_total_size] :
        i \in 0..(num_files - 1)}

\* file_size = round(data_footprint / num_total_files)
PerfFileSize(wf, data) == Round(data.v, perf_input_files(wf)[2])

\* ------------------------------------------------------- the lock files
\* a file of the lock folder: whether it exists, and its length
NoFile == [exists |-> FALSE, len |-> 0]
LockFileStates == {NoFile, [exists |-> TRUE, len |-> 0], [exists |-> TRUE, len |-> 1]}

\* mutant of open_w: open("a+") keeps what the file holds
open_a(file) == [exists |-> TRUE, len |-> file.len]

\* path.open("w+"): the file is created, or truncated to zero length
open_w(file) == [exists |-> TRUE, len |-> 0]

\* create_benchmark, "Creating the lock files": the folder after the try
CreateLockFiles(lock_files_folder, lockfs) ==
    IF lock_files_folder = "writable"
    THEN [lock |-> open_w(lockfs.lock), cores |-> open_w(lockfs.cores)]
    ELSE lockfs

\* except (FileNotFoundError, OSError): self.logger.warning(...)
LockWarning(lock_files_folder) == lock_files_folder \in {"no_mkdir", "no_open"}

\* ------------------------------------------- the errors of create_benchmark
\* the exception the parameters loop raises at one task, "none" if it passes:
\* percent_cpu[task_type], cpu_work[task_type], then f"--path-lock {lock}"
\* with `lock` unbound because mkdir raised before the assignment
ParametersError(task, percent_cpu, cpu_work, lock_files_folder) ==
    IF \/ ParameterKeyError(percent_cpu, task_type(task.name))
       \/ ParameterKeyError(cpu_work, task_type(task.name))
    THEN "KeyError"
    ELSE IF lock_files_folder = "no_mkdir" THEN "UnboundLocalError"
    ELSE "none"

RECURSIVE FirstError(_)
FirstError(errs) == IF errs = <<>> THEN "none"
                    ELSE IF Head(errs) # "none" THEN Head(errs)
                    ELSE FirstError(Tail(errs))

\* mutant of DataKeyError: only the lookups of output_files raise, the
\* lookup add_input_to_json makes for a root falls back on a default
DataKeyError_OutputsOnly(wf, data) ==
    /\ data.kind = "dict"
    /\ \E i \in DOMAIN wf :
          \/ wf[i].children = <<>> /\ wf[i].category \notin data.keys
          \/ \E k \in DOMAIN wf[i].children :
                TaskNamed(wf, wf[i].children[k]).category \notin data.keys

\* data[category] raises KeyError: in output_files for a task without
\* children and for every child, in add_input_to_json for a task without
\* parents
DataKeyError(wf, data) ==
    /\ data.kind = "dict"
    /\ \E i \in DOMAIN wf :
          \/ wf[i].children = <<>> /\ wf[i].category \notin data.keys
          \/ \E k \in DOMAIN wf[i].children :
                TaskNamed(wf, wf[i].children[k]).category \notin data.keys
          \/ wf[i].parents = <<>> /\ wf[i].category \notin data.keys

\* the exception create_benchmark raises, "none" if it returns
create_benchmark_raises(wf, percent_cpu, cpu_work, data, lock_files_folder) ==
    LET e == FirstError(List([i \in DOMAIN wf |->
                 ParametersError(wf[i], percent_cpu, cpu_work, lock_files_folder)]))
    IN  IF e # "none" THEN e
        ELSE IF DataKeyError(wf, data) THEN "KeyError"
        ELSE IF data.kind = "int" /\ calculate_input_files(wf)[2] = 0
        THEN "ZeroDivisionError"
        ELSE "none"

\* ------------------------------------------------------------------ state
VARIABLES
    pc,            \* where the caller is: start, created, create_failed,
                   \* scan, join, returned, except, except_cleanup, raised
    workflow,      \* self.workflow: the document the generator built
    wf,            \* wf["workflow"]["tasks"]: the generator's document, then the plan
    data,          \* the data argument of create_benchmark
    saveDir,       \* the save_dir argument of create_benchmark and run
    percent_cpu,   \* the percent_cpu argument of create_benchmark
    cpu_work,      \* the cpu_work argument of create_benchmark
    lock_files_folder,  \* the lock_files_folder argument of create_benchmark
    lockfs,        \* cores.txt.lock and cores.txt in the lock folder
    warned,        \* self.logger.warning has been called
    calls,         \* how many times create_benchmark has been called
    outputs,       \* create_benchmark's local `outputs`
    fs,            \* per directory, the files in it: records [name, len]
    cwd,           \* the current working directory of the caller's process
    has_executed,  \* run: names of the tasks already launched
    procs,         \* run: the launched processes, in launch order
    invocations,   \* run: the `program` list of each Popen, in launch order
    idx,           \* run: position of the for loop in the task list
    joined,        \* run: how many of procs have been waited for
    pstate,        \* per task, its process: none, running, exited
    raised,        \* the exception that reached the caller, "none" if none
    trail          \* run: what the except clause has done so far

inputVars == <<workflow, data, saveDir, percent_cpu, cpu_work, lock_files_folder>>
planVars == <<wf, outputs, lockfs, warned, calls>>
runVars == <<has_executed, procs, invocations, idx, joined>>
faultVars == <<raised, trail>>

vars == <<pc, inputVars, planVars, fs, cwd, runVars, pstate, faultVars>>

Exists(dir, name) == \E f \in fs[dir] : f.name = name

InitRun ==
    /\ pc = "start"
    /\ workflow = wf
    /\ warned = FALSE
    /\ calls = 0
    /\ outputs = <<>>
    /\ fs = [d \in Dirs |-> {}]
    /\ cwd = "caller_cwd"
    /\ has_executed = {}
    /\ procs = <<>>
    /\ invocations = <<>>
    /\ idx = 0
    /\ joined = 0
    /\ pstate = [n \in TaskNames(wf) |-> "none"]
    /\ raised = "none"
    /\ trail = <<>>

\* create_benchmark called with its default percent_cpu, cpu_work and
\* lock_files_folder
InitDefaults ==
    /\ percent_cpu = Scalar(PercentCpuDefault)
    /\ cpu_work = Scalar(CpuWorkDefault)
    /\ lock_files_folder = "none"
    /\ lockfs = [lock |-> NoFile, cores |-> NoFile]

InitBounded ==
    /\ wf \in BoundedGraphs
    /\ data \in BoundedData
    /\ saveDir \in SaveDirs
    /\ InitDefaults
    /\ InitRun

InitDiamond ==
    /\ wf = DiamondGraph
    /\ data = DiamondData
    /\ saveDir = "this_dir"
    /\ InitDefaults
    /\ InitRun

Init == InitBounded \/ InitDiamond

\* ------------------------------------------------------- create_benchmark
\* create_benchmark raises: a KeyError of a mapping, the UnboundLocalError of
\* `lock`, or the ZeroDivisionError of round(data * 1000000 / num_total_files)
\* on a graph without tasks; the lock files and the generator's document are
\* already written
CreateBenchmarkFails ==
    /\ pc = "start"
    /\ create_benchmark_raises(workflow, percent_cpu, cpu_work, data,
                               lock_files_folder) # "none"
    /\ raised' = create_benchmark_raises(workflow, percent_cpu, cpu_work, data,
                                         lock_files_folder)
    /\ lockfs' = CreateLockFiles(lock_files_folder, lockfs)
    /\ warned' = (warned \/ LockWarning(lock_files_folder))
    /\ calls' = calls + 1
    /\ pc' = "create_failed"
    /\ UNCHANGED <<inputVars, wf, outputs, fs, cwd, runVars, pstate, trail>>

\* the body of a call of create_benchmark that returns
create_benchmark ==
    /\ create_benchmark_raises(workflow, percent_cpu, cpu_work, data,
                               lock_files_folder) = "none"
    /\ lockfs' = CreateLockFiles(lock_files_folder, lockfs)
    /\ warned' = (warned \/ LockWarning(lock_files_folder))
    /\ calls' = calls + 1
    /\ wf' = FinalizedPlan(workflow, data,
                 SetParameters(workflow, percent_cpu, cpu_work, lock_files_folder))
    /\ outputs' = IF data.kind = "dict" THEN output_files(workflow, data.map)
                  ELSE IF data.kind = "int"
                  THEN LastOutputs(workflow, FileSize(workflow, data))
                  ELSE outputs
    /\ fs' = IF data.kind = "dict"
             THEN [fs EXCEPT ![saveDir] = WriteFiles(@, RootDataFiles(workflow, data))]
             ELSE IF data.kind = "int"
             THEN [fs EXCEPT ![saveDir] = WriteFiles(@,
                      RootDataFiles(workflow,
                                    [kind |-> "int", v |-> FileSize(workflow, data)]))]
             ELSE fs
    /\ UNCHANGED <<inputVars, cwd, runVars, pstate, faultVars>>

CreateBenchmark ==
    /\ pc = "start"
    /\ create_benchmark
    /\ pc' = "created"

\* create_benchmark called once more, with regenerate=False and the same
\* arguments: self.workflow is written and planned again
CreateBenchmarkAgain ==
    /\ pc = "created"
    /\ calls < MaxCalls
    /\ create_benchmark
    /\ pc' = "created"

\* ------------------------------------------------------------------- run
RunLog == [name |-> <<"run.txt">>, len |-> 0]

\* mutant of ready_to_execute: any() in the place of all()
ready_to_execute_Any(task) ==
    \E k \in DOMAIN task.files :
        task.files[k].link = "input" /\ Exists("this_dir", task.files[k].name)

\* all([this_dir.joinpath(f["name"]).exists() for f in files if link == input])
ready_to_execute(task) ==
    \A k \in DOMAIN task.files :
        task.files[k].link = "input" => Exists("this_dir", task.files[k].name)

\* files = assigning_correct_files(task): the names of the INPUT files
assigning_correct_files(task) ==
    LET inputs == SelectIdx(task.files, LAMBDA f : f.link = "input")
    IN  List([k \in DOMAIN inputs |-> Positional(task.files[inputs[k]].name)])

\* mutant of HasOutElement: a test for an element that starts with "--out"
HasOutElement_Prefix(arguments) ==
    \E k \in DOMAIN arguments : arguments[k].flag = "--out"

\* "--out" in arguments: an element of the list is the string "--out"
HasOutElement(arguments) ==
    \E k \in DOMAIN arguments :
        arguments[k].flag = "" /\ arguments[k].val = <<"--out">>

\* program = ["time", "python", executable, *arguments, *files], the files
\* only if "--out" in arguments
Program(task) ==
    <<Positional(<<"time">>), Positional(<<"python">>), Positional(<<task.program>>)>>
    \o task.arguments
    \o (IF HasOutElement(task.arguments) THEN assigning_correct_files(task) ELSE <<>>)

\* json.loads, open run.txt, the first test of the while condition
RunStart ==
    /\ pc = "created"
    /\ fs' = [fs EXCEPT ![saveDir] = WriteFiles(@, {RunLog})]
    /\ has_executed' = {}
    /\ procs' = <<>>
    /\ IF 0 < Len(wf) THEN pc' = "scan" /\ idx' = 1
                      ELSE pc' = "join" /\ idx' = idx
    /\ invocations' = <<>>
    /\ UNCHANGED <<inputVars, planVars, cwd, joined, pstate, faultVars>>

\* for task in tasks: if task["name"] in has_executed: continue
ScanSkip ==
    /\ pc = "scan"
    /\ idx <= Len(wf)
    /\ wf[idx].name \in has_executed
    /\ idx' = idx + 1
    /\ UNCHANGED <<pc, inputVars, planVars, fs, cwd,
                   has_executed, procs, invocations, joined, pstate, faultVars>>

\* if not ready_to_execute: continue
ScanNotReady ==
    /\ pc = "scan"
    /\ idx <= Len(wf)
    /\ wf[idx].name \notin has_executed
    /\ ~ready_to_execute(wf[idx])
    /\ idx' = idx + 1
    /\ UNCHANGED <<pc, inputVars, planVars, fs, cwd,
                   has_executed, procs, invocations, joined, pstate, faultVars>>

\* has_executed.add, chdir(folder), Popen, chdir("../.."): folder is
\* this_dir/wfbench_execution/<uuid>, so the caller ends in this_dir
ScanLaunch ==
    /\ pc = "scan"
    /\ idx <= Len(wf)
    /\ wf[idx].name \notin has_executed
    /\ ready_to_execute(wf[idx])
    /\ has_executed' = has_executed \cup {wf[idx].name}
    /\ procs' = Append(procs, wf[idx].name)
    /\ invocations' = Append(invocations, Program(wf[idx]))
    /\ pstate' = [pstate EXCEPT ![wf[idx].name] = "running"]
    /\ cwd' = "this_dir"
    /\ idx' = idx + 1
    /\ UNCHANGED <<pc, inputVars, planVars, fs, joined, faultVars>>

\* mutant of WhileCondition: the loop ends once anything has been launched
WhileCondition_NoneLaunched == has_executed = {} /\ 0 < Len(wf)

\* while len(has_executed) < len(wf["workflow"]["tasks"])
WhileCondition == Cardinality(has_executed) < Len(wf)

\* time.sleep(1), then while len(has_executed) < len(tasks): scan again
SleepRescan ==
    /\ pc = "scan"
    /\ idx = Len(wf) + 1
    /\ WhileCondition
    /\ idx' = 1
    /\ UNCHANGED <<pc, inputVars, planVars, fs, cwd,
                   has_executed, procs, invocations, joined, pstate, faultVars>>

\* time.sleep(1), then the while condition is false
SleepDone ==
    /\ pc = "scan"
    /\ idx = Len(wf) + 1
    /\ ~WhileCondition
    /\ pc' = "join"
    /\ UNCHANGED <<inputVars, planVars, fs, cwd, runVars, pstate, faultVars>>

\* for proc in procs: proc.wait()
Join ==
    /\ pc = "join"
    /\ joined < Len(procs)
    /\ pstate[procs[joined + 1]] = "exited"
    /\ joined' = joined + 1
    /\ UNCHANGED <<pc, inputVars, planVars, fs, cwd,
                   has_executed, procs, invocations, idx, pstate, faultVars>>

\* mutant of cleanup_sys_files: the glob for the outputs is forgotten
cleanup_sys_files_InputsOnly(dir) ==
    {f \in dir : ~MatchesInputGlob(f.name)}

\* cleanup_sys_files(): glob and remove in the current working directory
cleanup_sys_files(dir) ==
    {f \in dir : ~(MatchesInputGlob(f.name) \/ MatchesOutputGlob(f.name))}

Cleanup ==
    /\ pc = "join"
    /\ joined = Len(procs)
    /\ fs' = [fs EXCEPT ![cwd] = cleanup_sys_files(@)]
    /\ pc' = "returned"
    /\ UNCHANGED <<inputVars, planVars, cwd, runVars, pstate, faultVars>>

\* --------------------------------------------- the launched task processes
\* the name -> size items of the --out argument the process was given
OutArgument(task) ==
    Flatten(List([k \in DOMAIN task.arguments |->
               IF task.arguments[k].flag = "--out"
               THEN task.arguments[k].val ELSE <<>>]))

\* a running process writes one of the files --out names
ProcWrite(n) ==
    /\ pstate[n] = "running"
    /\ LET out == OutArgument(TaskNamed(wf, n))
       IN  \E k \in DOMAIN out :
              /\ ~Exists("this_dir", out[k][1])
              /\ fs' = [fs EXCEPT !["this_dir"] =
                           WriteFiles(@, {[name |-> out[k][1], len |-> out[k][2].v]})]
    /\ UNCHANGED <<pc, inputVars, planVars, cwd, runVars, pstate, faultVars>>

\* a running process exits once every file --out names is written
ProcExit(n) ==
    /\ pstate[n] = "running"
    /\ LET out == OutArgument(TaskNamed(wf, n))
       IN  \A k \in DOMAIN out : Exists("this_dir", out[k][1])
    /\ pstate' = [pstate EXCEPT ![n] = "exited"]
    /\ UNCHANGED <<pc, inputVars, planVars, fs, cwd, runVars, faultVars>>

\* a step of one of the launched processes
Processes == \E n \in has_executed : ProcWrite(n) \/ ProcExit(n)

Next ==
    \/ CreateBenchmarkFails
    \/ CreateBenchmark
    \/ RunStart
    \/ ScanSkip
    \/ ScanNotReady
    \/ ScanLaunch
    \/ SleepRescan
    \/ SleepDone
    \/ Join
    \/ Cleanup
    \/ \E n \in has_executed : ProcWrite(n)
    \/ \E n \in has_executed : ProcExit(n)

Spec == Init /\ [][Next]_vars

\* ------------------------------------------------- run, with its faults
\* a file cleanup_sys_files would remove is in the current directory
HasArtifact(dir) == \E f \in dir : MatchesInputGlob(f.name) \/ MatchesOutputGlob(f.name)

\* json_path.read_text, json.loads or the open of run.txt raises
FaultLoad ==
    /\ pc = "created"
    /\ pc' = "except"
    /\ UNCHANGED <<inputVars, planVars, fs, cwd, runVars, pstate, faultVars>>

\* the loop body raises on a task of a malformed plan (task["files"],
\* task["command"]) before anything is launched for it
FaultScan ==
    /\ pc = "scan"
    /\ idx <= Len(wf)
    /\ wf[idx].name \notin has_executed
    /\ pc' = "except"
    /\ UNCHANGED <<inputVars, planVars, fs, cwd, runVars, pstate, faultVars>>

\* the launch of a ready task raises: folder.mkdir or os.chdir(folder), or,
\* after the chdir, subprocess.Popen (no `time`, no `python`)
FaultLaunch ==
    /\ pc = "scan"
    /\ idx <= Len(wf)
    /\ wf[idx].name \notin has_executed
    /\ ready_to_execute(wf[idx])
    /\ has_executed' = has_executed \cup {wf[idx].name}
    /\ cwd' \in {cwd, "execution_folder"}
    /\ pc' = "except"
    /\ UNCHANGED <<inputVars, planVars, fs, procs, invocations, idx, joined,
                   pstate, faultVars>>

\* cleanup_sys_files() at the end of the try raises: os.remove fails on the
\* first name the glob returned
FaultCleanup ==
    /\ pc = "join"
    /\ joined = Len(procs)
    /\ HasArtifact(fs[cwd])
    /\ pc' = "except"
    /\ UNCHANGED <<inputVars, planVars, fs, cwd, runVars, pstate, faultVars>>

\* except Exception: subprocess.Popen(["killall", "stress-ng"])
ExceptKill ==
    /\ pc = "except"
    /\ trail' = Append(trail, "kill")
    /\ pc' = "except_cleanup"
    /\ UNCHANGED <<inputVars, planVars, fs, cwd, runVars, pstate, raised>>

\* that Popen raises FileNotFoundError itself: there is no killall
ExceptKillFails ==
    /\ pc = "except"
    /\ raised' = "FileNotFoundError"
    /\ pc' = "raised"
    /\ UNCHANGED <<inputVars, planVars, fs, cwd, runVars, pstate, trail>>

\* cleanup_sys_files(), print_exc, raise FileNotFoundError(...)
ExceptCleanup ==
    /\ pc = "except_cleanup"
    /\ fs' = [fs EXCEPT ![cwd] = cleanup_sys_files(@)]
    /\ trail' = Append(trail, "cleanup")
    /\ raised' = "FileNotFoundError"
    /\ pc' = "raised"
    /\ UNCHANGED <<inputVars, planVars, cwd, runVars, pstate>>

\* cleanup_sys_files() in the except clause raises: os.remove fails
ExceptCleanupFails ==
    /\ pc = "except_cleanup"
    /\ HasArtifact(fs[cwd])
    /\ raised' = "OSError"
    /\ pc' = "raised"
    /\ UNCHANGED <<inputVars, planVars, fs, cwd, runVars, pstate, trail>>

\* run under faults: the total-footprint policy or no data, save_dir = this_dir
InitFault ==
    /\ wf \in BoundedGraphs
    /\ data \in {[kind |-> "int", v |-> MaxData], [kind |-> "none"]}
    /\ saveDir = "this_dir"
    /\ InitDefaults
    /\ InitRun

NextFault ==
    \/ Next
    \/ FaultLoad
    \/ FaultScan
    \/ FaultLaunch
    \/ FaultCleanup
    \/ ExceptKill
    \/ ExceptKillFails
    \/ ExceptCleanup
    \/ ExceptCleanupFails

FaultSpec == InitFault /\ [][NextFault]_vars

\* ------------------------------------- create_benchmark of perf.py
InitPerf ==
    /\ wf \in BoundedGraphs
    /\ data \in {[kind |-> "int", v |-> d] : d \in 0..MaxData}
    /\ saveDir \in SaveDirs
    /\ percent_cpu = Scalar(PercentCpuDefault)
    /\ cpu_work = Scalar(PerfCpuWorkDefault)
    /\ lock_files_folder = "none"
    /\ lockfs = [lock |-> NoFile, cores |-> NoFile]
    /\ InitRun

\* create_benchmark of perf.py raises ZeroDivisionError: a data footprint
\* for a workflow without jobs; the lock files are already created in /tmp
PerfCreateBenchmarkFails ==
    /\ pc = "start"
    /\ data.v # 0
    /\ perf_input_files(workflow)[2] = 0
    /\ raised' = "ZeroDivisionError"
    /\ lockfs' = [lock |-> open_w(lockfs.lock), cores |-> open_w(lockfs.cores)]
    /\ warned' = TRUE
    /\ calls' = calls + 1
    /\ pc' = "create_failed"
    /\ UNCHANGED <<inputVars, wf, outputs, fs, cwd, runVars, pstate, trail>>

\* create_benchmark of perf.py with create=True and no lock_files_folder
PerfCreateBenchmark ==
    /\ pc = "start"
    /\ ~(data.v # 0 /\ perf_input_files(workflow)[2] = 0)
    /\ lockfs' = [lock |-> open_w(lockfs.lock), cores |-> open_w(lockfs.cores)]
    /\ warned' = TRUE
    /\ calls' = calls + 1
    /\ wf' = IF data.v # 0
             THEN add_io_to_json(
                      ExtendData(SetPerfParameters(workflow, percent_cpu.v, cpu_work.v),
                                 PerfFileSize(workflow, data)),
                      PerfFileSize(workflow, data))
             ELSE SetPerfParameters(workflow, percent_cpu.v, cpu_work.v)
    /\ fs' = IF data.v # 0
             THEN [fs EXCEPT ![saveDir] = WriteFiles(@,
                      generate_sys_data(perf_input_files(workflow)[1],
                                        PerfFileSize(workflow, data)))]
             ELSE fs
    /\ pc' = "perf_created"
    /\ UNCHANGED <<inputVars, outputs, cwd, runVars, pstate, faultVars>>

NextPerf ==
    \/ PerfCreateBenchmarkFails
    \/ PerfCreateBenchmark

PerfSpec == InitPerf /\ [][NextPerf]_vars

\* ---------------------------------------------- the planner on its own
\* create_benchmark on every combination of arguments worth telling apart:
\* mappings that lack a category, a lock folder in each of its conditions
\* with the lock files in each prior state
PlannerData ==
    BoundedData
    \cup {DataMapping(K, [c \in Categories |-> IF c = "a" THEN 0 ELSE 100]) :
             K \in (SUBSET Categories) \ {Categories}}

PercentCpus == {Scalar(PercentCpuDefault), Mapping(Categories, "0.9"), Mapping({"a"}, "0.9")}
CpuWorks == {Scalar(CpuWorkDefault), Mapping({"b"}, 500)}

InitPlanner ==
    /\ wf \in BoundedGraphs
    /\ data \in PlannerData
    /\ saveDir = "save_dir"
    /\ \/ /\ percent_cpu \in PercentCpus
          /\ cpu_work \in CpuWorks
          /\ lock_files_folder = "none"
          /\ lockfs = [lock |-> NoFile, cores |-> NoFile]
       \/ /\ percent_cpu \in {Scalar(PercentCpuDefault), Mapping({"a"}, "0.9")}
          /\ cpu_work = Scalar(CpuWorkDefault)
          /\ lock_files_folder \in LockFolders \ {"none"}
          /\ lockfs \in [lock : LockFileStates, cores : LockFileStates]
          \* a folder mkdir cannot create holds no file
          /\ lock_files_folder = "no_mkdir" => lockfs = [lock |-> NoFile, cores |-> NoFile]
    /\ InitRun

NextPlanner ==
    \/ CreateBenchmarkFails
    \/ CreateBenchmark
    \/ CreateBenchmarkAgain

PlannerSpec == InitPlanner /\ [][NextPlanner]_vars

\* once the plan is written the caller keeps running (the steps of run
\* exclude one another), and so do the launched processes: a process takes finitely many steps, so none of them
\* can starve another for ever
FairSpec ==
    /\ Spec
    /\ WF_vars(RunStart)
    /\ WF_vars(ScanSkip)
    /\ WF_vars(ScanNotReady)
    /\ WF_vars(ScanLaunch)
    /\ WF_vars(SleepRescan)
    /\ WF_vars(SleepDone)
    /\ WF_vars(Join)
    /\ WF_vars(Cleanup)
    /\ WF_vars(Processes)

\* ============================================================== properties
\* create_benchmark has just returned the plan it saved
Planned == pc = "created"
Finalized == Planned /\ data.kind \in {"dict", "int"}
Running == pc \in {"scan", "join", "returned"}

Tasks == Range(wf)
Inputs(task) == {f \in Range(task.files) : f.link = "input"}
Outputs(task) == {f \in Range(task.files) : f.link = "output"}
ParentsOf(task) == {t \in Tasks : t.name \in Range(task.parents)}
ChildrenOf(task) == {t \in Tasks : t.name \in Range(task.children)}
Roots == {t \in Tasks : Len(t.parents) = 0}
NonRoots == {t \in Tasks : Len(t.parents) > 0}
EdgeFileName(p, t) == IF data.kind = "dict" THEN <<p.name, "_", t.name, "_output.txt">>
                      ELSE <<p.name, "_output.txt">>
NumInputs(task) == Cardinality({k \in DOMAIN task.files : task.files[k].link = "input"})
NumOutputs(task) == Cardinality({k \in DOMAIN task.files : task.files[k].link = "output"})

\* C1: in a finalized plan, under either sizing policy, every task T declares
\* for every parent P an INPUT whose name and size are those of an OUTPUT
\* that P declares for the edge (P, T).
C1_EdgeInputMatchesParentOutput ==
    Finalized =>
        \A t \in Tasks : \A p \in ParentsOf(t) :
            \E fin \in Inputs(t) : \E fout \in Outputs(p) :
                /\ fout.name = EdgeFileName(p, t)
                /\ fin.name = fout.name
                /\ fin.size = fout.size

\* a per-category plan in which a task of category b has two parents
C1_Witness ==
    /\ pc = "created"
    /\ data.kind = "dict"
    /\ \E t \in Tasks : t.category = "b" /\ Len(t.parents) = 2

\* C2: run launches a process only for a task that has not been launched
\* before and whose INPUT files are all present where run looks, at the
\* moment of the launch.
C2_LaunchOnlyReadyOnce ==
    [][procs' # procs =>
          /\ Len(procs') = Len(procs) + 1
          /\ \A k \in DOMAIN procs : procs'[k] = procs[k]
          /\ procs'[Len(procs')] \notin Range(procs)
          /\ \A f \in Inputs(TaskNamed(wf, procs'[Len(procs')])) :
                \E g \in fs["this_dir"] : g.name = f.name]_vars

\* every task of a three-task plan with file declarations has been launched,
\* one of them a task with two parents
C2_Witness ==
    /\ Running
    /\ data.kind \in {"dict", "int"}
    /\ Len(procs) = 3
    /\ \E t \in Tasks : Len(t.parents) = 2 /\ t.name \in Range(procs)

\* C3 as stated: for every plan create_benchmark writes, no task is launched
\* before all its parents have been launched.
C3_Original ==
    Running => \A t \in Tasks :
        t.name \in has_executed => \A p \in ParentsOf(t) : p.name \in has_executed

\* C3 amended: for every plan finalized under one of the two sizing policies,
\* no task is launched before all its parents have been launched.
C3_TopologicalLaunchOrder ==
    (Running /\ data.kind \in {"dict", "int"}) =>
        \A t \in Tasks :
            t.name \in has_executed => \A p \in ParentsOf(t) : p.name \in has_executed

\* a task listed before both of its parents has been launched after them,
\* under the total-footprint policy
C3_Witness ==
    /\ Running
    /\ data.kind = "int"
    /\ Len(wf) = 3
    /\ Len(wf[1].parents) = 2
    /\ wf[1].name \in has_executed

\* C4: a plan finalized under either sizing policy, its root inputs present
\* where run looks and its processes writing their outputs and exiting, is
\* run to the end: every task launched, every process joined, run returned.
C4_RunCompletes ==
    (pc = "created" /\ data.kind \in {"dict", "int"} /\ saveDir = "this_dir")
        ~> (/\ pc = "returned"
            /\ has_executed = TaskNames(wf)
            /\ joined = Len(wf))

\* C5: every INPUT other than a root's synthetic input has exactly one OUTPUT
\* declaration of the same name and size in the plan, and a different task
\* declares it.
C5_InputHasOneOtherProducer ==
    Finalized =>
        \A i \in DOMAIN wf : \A f \in Inputs(wf[i]) :
            (Len(wf[i].parents) = 0 /\ f.name = <<wf[i].name, "_input.txt">>)
            \/ LET producers == UNION {{<<j, k>> : k \in {x \in DOMAIN wf[j].files :
                                                  /\ wf[j].files[x].link = "output"
                                                  /\ wf[j].files[x].name = f.name
                                                  /\ wf[j].files[x].size = f.size}} :
                                      j \in DOMAIN wf}
               IN  /\ Cardinality(producers) = 1
                   /\ \A jk \in producers : jk[1] # i

\* C6: every root of a finalized plan declares exactly one INPUT, named
\* <task>_input.txt, and no task declares an OUTPUT of that name.
C6_RootHasOneSyntheticInput ==
    Finalized =>
        \A r \in Roots :
            /\ NumInputs(r) = 1
            /\ \A f \in Inputs(r) : f.name = <<r.name, "_input.txt">>
            /\ \A t \in Tasks : \A g \in Outputs(t) : g.name # <<r.name, "_input.txt">>

\* a per-category plan with a root that has no children next to a root that has
C6_Witness ==
    /\ pc = "created"
    /\ data.kind = "dict"
    /\ \E r \in Roots : Len(r.children) = 0
    /\ \E r \in Roots : Len(r.children) > 0

\* the declarations of the plan, one per distinct file name and size
DeclaredFiles == UNION {{<<f.name, f.size>> : f \in Range(t.files)} : t \in Tasks}
DeclaredNames == {d[1] : d \in DeclaredFiles}

RECURSIVE SumSizes(_)
SumSizes(D) == IF D = {} THEN 0
               ELSE LET d == CHOOSE x \in D : TRUE
                    IN  d[2].v + SumSizes(D \ {d})

TotalFiles == 2 * Cardinality(Roots) + Cardinality(NonRoots)

\* n is a / b rounded to nearest, a tie to the even neighbour
IsRounded(n, a, b) ==
    \/ 2 * Abs(n * b - a) < b
    \/ 2 * Abs(n * b - a) = b /\ n % 2 = 0

\* C7: under the total-footprint policy every declaration has the size
\* round(data * 1000000 / total_files), and the sizes of the distinct files
\* add up to data * 1000000 within total_files.
C7_UniformRoundedSize ==
    (Planned /\ data.kind = "int") =>
        /\ Len(wf) > 0
        /\ \A t \in Tasks : \A f \in Range(t.files) :
              /\ f.size.t = "int"
              /\ IsRounded(f.size.v, data.v * 1000000, TotalFiles)
        /\ Cardinality(DeclaredFiles) = Cardinality(DeclaredNames)
        /\ Abs(SumSizes(DeclaredFiles) - data.v * 1000000) <= TotalFiles

\* 2 MB over the three files of a plan root -> sink: 666667 bytes each
C7_Witness ==
    /\ pc = "created"
    /\ data.kind = "int"
    /\ data.v = 2
    /\ TotalFiles = 3
    /\ \A t \in Tasks : \A f \in Range(t.files) : f.size.v = 666667

\* C8: calculate_input_files counts two files per task without parents and one
\* per task with parents, and a plan finalized under the total-footprint
\* policy declares that many distinct file names.
C8_TotalFilesCount ==
    /\ pc \in {"start", "created"} => calculate_input_files(wf)[2] = TotalFiles
    /\ (Planned /\ data.kind = "int") =>
           Cardinality(DeclaredNames) = calculate_input_files(wf)[2]

\* a total-footprint plan with two roots feeding one task: five files
C8_Witness ==
    /\ pc = "created"
    /\ data.kind = "int"
    /\ Cardinality(Roots) = 2
    /\ Cardinality(NonRoots) = 1
    /\ Cardinality(DeclaredNames) = 5

TableOf(name) == outputs[CHOOSE i \in DOMAIN outputs : outputs[i][1] = name][2]

\* C9: under the per-category policy output_files gives a task one entry per
\* child, sized as the child's category, a task without children one entry
\* under its own name, sized as its own category, and a root's synthetic
\* INPUT has the size of the root's category.
C9_ConsumerSizesEdge ==
    (Planned /\ data.kind = "dict") =>
        /\ Len(outputs) = Len(wf)
        /\ \A t \in Tasks :
              /\ Cardinality({i \in DOMAIN outputs : outputs[i][1] = t.name}) = 1
              /\ IF Len(t.children) = 0
                 THEN /\ Len(TableOf(t.name)) = 1
                      /\ TableOf(t.name)[1][1] = t.name
                      /\ TableOf(t.name)[1][2].v = data.map[t.category].v
                 ELSE /\ Len(TableOf(t.name)) = Len(t.children)
                      /\ \A c \in ChildrenOf(t) :
                            \E k \in DOMAIN TableOf(t.name) :
                                /\ TableOf(t.name)[k][1] = c.name
                                /\ TableOf(t.name)[k][2].v = data.map[c.category].v
        /\ \A r \in Roots : \A f \in Inputs(r) : f.size = data.map[r.category]

\* a per-category plan whose categories differ in size, with an edge from a
\* task of one category to a task of the other
C9_Witness ==
    /\ pc = "created"
    /\ data.kind = "dict"
    /\ data.map["a"].v # data.map["b"].v
    /\ \E t \in Tasks : \E c \in ChildrenOf(t) :
          /\ t.category # c.category
          /\ Len(c.children) = 0

IsDiamond == Planned /\ data = DiamondData /\ [i \in DOMAIN wf |-> wf[i].name] = DiamondNames

HasFile(task, link, name, size) ==
    \E f \in Range(task.files) : f.link = link /\ f.name = name /\ f.size.v = size

C11_FaultsEndInSingleFailure ==
    pc = "raised" => (raised = "FileNotFoundError" /\ trail = <<"kill", "cleanup">>)

\* the arguments of the plan that name the lock files
LockArguments(task) ==
    {k \in DOMAIN task.arguments : task.arguments[k].flag \in {"--path-lock", "--path-cores"}}

\* C12: given a lock_files_folder that cannot be created or written,
\* create_benchmark warns, still returns a plan, and no task of the plan has a
\* --path-lock or --path-cores argument (the other arguments being such that
\* the call returns when no lock folder is given).
C12_UnwritableLockFolderDegrades ==
    [][(/\ pc = "start"
        /\ lock_files_folder \in {"no_mkdir", "no_open"}
        /\ create_benchmark_raises(workflow, percent_cpu, cpu_work, data, "none") = "none")
       => (/\ pc' = "created"
           /\ warned'
           /\ \A i \in DOMAIN wf' : LockArguments(wf'[i]) = {})]_vars

\* a mapping lacks a category of the graph, or the total-footprint policy
\* meets a graph without tasks
ConfigurationError ==
    \/ /\ data.kind = "dict"
       /\ \E t \in Range(workflow) : t.category \notin data.keys
    \/ /\ percent_cpu.kind = "dict"
       /\ \E t \in Range(workflow) : t.category \notin percent_cpu.keys
    \/ /\ cpu_work.kind = "dict"
       /\ \E t \in Range(workflow) : t.category \notin cpu_work.keys
    \/ /\ data.kind = "int"
       /\ 2 * Cardinality({t \in Range(workflow) : Len(t.parents) = 0})
          + Cardinality({t \in Range(workflow) : Len(t.parents) > 0}) = 0

\* C13: when the data, percent_cpu or cpu_work mapping lacks a category of the
\* graph, or the total-footprint policy is applied to a graph without tasks,
\* create_benchmark raises, generates no root input file and leaves the
\* generator's document in the place of the finalized plan.
C13_ConfigurationErrorFails ==
    [][(pc = "start" /\ ConfigurationError)
       => (/\ pc' = "create_failed"
           /\ raised' # "none"
           /\ wf' = workflow
           /\ \A f \in fs'[saveDir] : ~MatchesInputGlob(f.name))]_vars

\* create_benchmark has raised KeyError on a data mapping that has a key for
\* every category output_files looks up, and none for the category of a root
C13_Witness ==
    /\ pc = "create_failed"
    /\ raised = "KeyError"
    /\ data.kind = "dict"
    /\ percent_cpu.kind = "scalar" /\ cpu_work.kind = "scalar"
    /\ \E t \in Range(workflow) :
          Len(t.parents) = 0 /\ Len(t.children) > 0 /\ t.category \notin data.keys
    /\ \A t \in Range(workflow) :
          (Len(t.parents) > 0 \/ Len(t.children) = 0) => t.category \in data.keys

\* C14: on a fault-free run the cleanup has run only once every task has been
\* launched and every launched process has exited and been joined, and after
\* it neither save_dir nor the directory the tasks' files are looked up in
\* holds a file matching *input*.txt or *output.txt.
C14_CleanupAfterAllJoined ==
    pc = "returned" =>
        /\ has_executed = TaskNames(wf)
        /\ Len(procs) = Len(wf)
        /\ joined = Len(procs)
        /\ \A n \in TaskNames(wf) : pstate[n] = "exited"
        /\ ~HasArtifact(fs[saveDir])
        /\ ~HasArtifact(fs["this_dir"])

\* run has returned from a total-footprint plan of three tasks, one of them
\* with two parents, whose files were all written
C14_Witness ==
    /\ pc = "returned"
    /\ data.kind = "int"
    /\ Len(wf) = 3
    /\ \E t \in Tasks : Len(t.parents) = 2
    /\ \E f \in fs[saveDir] : f.name = <<"run.txt">>

Position(n) == CHOOSE k \in DOMAIN procs : procs[k] = n

\* the state of a task in run; READY is the instant between the test of the
\* inputs and the Popen of one pass of the loop body
TaskState(n) ==
    IF n \notin has_executed THEN "PENDING"
    ELSE IF Position(n) <= joined THEN "DONE"
    ELSE "RUNNING"

StateRank(st) == IF st = "PENDING" THEN 0 ELSE IF st = "RUNNING" THEN 2 ELSE 3

\* C15: during run a task's state never moves back; a task leaves PENDING
\* only for RUNNING, and only when all its INPUT files are present; it
\* becomes DONE only from RUNNING, by the join of its exited process, after
\* every task of the plan has been launched, and in launch order.
C15_TaskStatesMoveForward ==
    [][(pc \in {"scan", "join"}) =>
        \A n \in TaskNames(wf) :
            /\ StateRank(TaskState(n)') >= StateRank(TaskState(n))
            /\ (TaskState(n) = "PENDING" /\ TaskState(n)' # "PENDING") =>
                   /\ TaskState(n)' = "RUNNING"
                   /\ \A f \in Inputs(TaskNamed(wf, n)) : Exists("this_dir", f.name)
            /\ (TaskState(n) # "DONE" /\ TaskState(n)' = "DONE") =>
                   /\ TaskState(n) = "RUNNING"
                   /\ pstate[n] = "exited"
                   /\ has_executed = TaskNames(wf)
                   /\ Position(n) = joined + 1
                   /\ joined' = joined + 1]_vars

\* of three launched tasks of a plan with file declarations the first is
\* DONE and the others are still RUNNING
C15_Witness ==
    /\ pc = "join"
    /\ data.kind = "int"
    /\ Len(procs) = 3
    /\ joined = 1
    /\ TaskState(procs[1]) = "DONE"
    /\ TaskState(procs[3]) = "RUNNING"

\* the names of the INPUT declarations of a task, in declaration order
InputNames(task) ==
    LET ix == SelectIdx(task.files, LAMBDA f : f.link = "input")
    IN  [k \in DOMAIN ix |-> task.files[ix[k]].name]

\* C16: the invocation run launches for a task of a finalized plan is
\* `time python`, the task's executable, then the arguments: the first is the
\* task's name, the last are the names of the task's INPUT declarations in
\* declaration order, and each of these names is passed exactly once.
C16_InvocationPassesInputsOnce ==
    (Running /\ data.kind \in {"dict", "int"}) =>
        /\ Len(invocations) = Len(procs)
        /\ \A k \in DOMAIN invocations :
              LET task == TaskNamed(wf, procs[k])
                  inv == invocations[k]
                  ins == InputNames(task)
                  n == Len(ins)
              IN  /\ Len(inv) >= 4 + n
                  /\ inv[1] = Positional(<<"time">>)
                  /\ inv[2] = Positional(<<"python">>)
                  /\ inv[3] = Positional(<<task.program>>)
                  /\ inv[4] = Positional(<<task.name>>)
                  /\ \A j \in 1..n : inv[Len(inv) - n + j] = Positional(ins[j])
                  /\ \A j \in 5..(Len(inv) - n) : inv[j].flag # ""
                  /\ \A j \in 1..n :
                        Cardinality({i \in 4..Len(inv) :
                            inv[i].flag = "" /\ inv[i].val = ins[j]}) = 1

\* a task with two INPUT declarations has been launched
C16_Witness ==
    /\ Running
    /\ data.kind \in {"dict", "int"}
    /\ \E k \in DOMAIN invocations :
          /\ Len(InputNames(TaskNamed(wf, procs[k]))) = 2
          /\ invocations[k][Len(invocations[k])].flag = ""
          /\ invocations[k][Len(invocations[k]) - 1].flag = ""
          /\ invocations[k][Len(invocations[k]) - 2].flag = "--out"

\* C17: in a finalized plan, under both sizing policies, the mapping of each
\* task's one --out argument holds exactly the names and sizes of the OUTPUT
\* files the task declares.
C17_OutArgumentMatchesOutputs ==
    Finalized =>
        \A t \in Tasks :
            /\ Cardinality({k \in DOMAIN t.arguments : t.arguments[k].flag = "--out"}) = 1
            /\ Len(OutArgument(t)) = NumOutputs(t)
            /\ {<<item[1], item[2]>> : item \in Range(OutArgument(t))}
                  = {<<f.name, f.size>> : f \in Outputs(t)}

\* a per-category plan with a task of two children, and sizes that differ
C17_Witness ==
    /\ pc = "created"
    /\ data.kind = "dict"
    /\ data.map["a"].v # data.map["b"].v
    /\ \E t \in Tasks : Len(t.children) = 2 /\ Len(OutArgument(t)) = 2

ZeroLength == [exists |-> TRUE, len |-> 0]

\* C18: every call of create_benchmark with a writable lock_files_folder
\* leaves cores.txt.lock and cores.txt in existence with zero length, whatever
\* they were before, and a second call leaves the folder as the first left it.
C18_ProvisioningIdempotent ==
    [][(lock_files_folder = "writable" /\ calls' = calls + 1)
       => (/\ lockfs'.lock = ZeroLength
           /\ lockfs'.cores = ZeroLength
           /\ calls >= 1 => lockfs' = lockfs)]_vars

\* create_benchmark has been called twice with a writable lock folder
C18_Witness ==
    /\ calls = 2
    /\ lock_files_folder = "writable"
    /\ lockfs.lock = ZeroLength
    /\ lockfs.cores = ZeroLength

\* C19: after create_benchmark has returned under either sizing policy,
\* save_dir holds for every root one file <task>_input.txt as long as the size
\* of the INPUT the root declares, and no input file of any other task.
C19_RootInputDataGenerated ==
    Finalized =>
        /\ \A r \in Roots :
              /\ Cardinality({f \in fs[saveDir] : f.name = <<r.name, "_input.txt">>}) = 1
              /\ \A f \in fs[saveDir] : f.name = <<r.name, "_input.txt">> =>
                    /\ Inputs(r) # {}
                    /\ \A d \in Inputs(r) : d.name = f.name /\ d.size.v = f.len
        /\ \A dir \in Dirs : \A f \in fs[dir] :
              MatchesInputGlob(f.name) =>
                  (dir = saveDir /\ \E r \in Roots : f.name = <<r.name, "_input.txt">>)

\* a per-category plan written to save_dir: a root whose category has a
\* decimal string for its size, and a task that is no root
C19_Witness ==
    /\ pc = "created"
    /\ data.kind = "dict"
    /\ saveDir = "save_dir"
    /\ data.map["b"].v = 100
    /\ \E r \in Roots : r.category = "b"
    /\ NonRoots # {}

\* C20: in a plan of the wfperf planner every job T with a parent P declares
\* an INPUT whose name and size are those of P's OUTPUT, in whatever order
\* the jobs are listed.
C20_PerfEdgeInputMatchesParentOutput ==
    (pc = "perf_created" /\ data.v # 0) =>
        \A t \in Tasks : \A p \in ParentsOf(t) :
            \E fin \in Inputs(t) : \E fout \in Outputs(p) :
                /\ fout.name = <<p.name, "_output.txt">>
                /\ fin.name = fout.name
                /\ fin.size = fout.size

\* the directory generate_data_for_root_nodes writes the root input files to
GenerationDir == saveDir

\* the directory run joins a task's INPUT names to when it tests them
PresenceDir == "this_dir"

\* the directory cleanup_sys_files globs and removes in
CleanupDir == cwd

\* C21: throughout a run of a plan with file declarations the directory the
\* root input files were generated in is the directory run tests the presence
\* of INPUT files in, and once a task has been launched the directory
\* cleanup deletes from is that same directory.
C21_OneWorkingRoot ==
    (Running /\ data.kind \in {"dict", "int"} /\ Len(wf) > 0) =>
        /\ GenerationDir = PresenceDir
        /\ has_executed # {} => CleanupDir = PresenceDir

\* the processes run has launched that have not terminated
StillRunning == {n \in TaskNames(wf) : pstate[n] = "running"}

\* C22: when run has ended, by its return or by an exception, no process it
\* launched is still running; as the cleanup is the last thing run does on
\* either path, this includes that no process runs while the cleanup deletes.
C22_NoProcessOutlivesRun ==
    pc \in {"returned", "raised"} => StillRunning = {}
====
